---- MODULE Spec2Model ----
(***************************************************************************)
(* Gravity simulation (src/gravity_sim.cpp): the body registry `objs`, the *)
(* per-frame force / collision / integration loop of main(), the grid of   *)
(* UpdateGridVertices, and the GLFW key and mouse-button callbacks that    *)
(* drive body creation and pause.                                          *)
(*                                                                         *)
(* Number model.  The program computes in float; TLC computes in bounded   *)
(* integers, so every quantity is a fixed-point integer and every division *)
(* truncates toward zero (sign-symmetric, like float rounding):            *)
(*   length, radius, position : tenths of a simulation unit                *)
(*   velocity                 : tenths of a simulation unit per second     *)
(*   mass                     : MassUnit = 10^21 kg                        *)
(*   density                  : kg/m^3                                     *)
(*   deltaTime                : milliseconds                               *)
(***************************************************************************)
EXTENDS Integers, Sequences, FiniteSets, TLC

VARIABLES
  objs,       \* std::vector<Object> objs, the registry
  pause,      \* bool pause
  running,    \* bool running
  deltaTime,  \* float deltaTime, the measured delta of the latest frame
  rightDown,  \* GLFW's state of the right mouse button
  kDown,      \* GLFW's state of the K key
  frames,     \* number of iterations of the main loop so far
  events,     \* number of callbacks dispatched so far
  lastOp,     \* what ran last: "init", "frame", "mouse" or "key"
  accPairs,   \* ordered pairs (i, j): accelerate() ran on i for j, latest frame
  dampPairs,  \* ordered pairs (i, j): i's velocity was damped for j, latest frame
  gridVertices \* std::vector<float> gridVertices of main, as vertices

vars == <<objs, pause, running, deltaTime, rightDown, kDown,
          frames, events, lastOp, accPairs, dampPairs, gridVertices>>

(***************************************************************************)
(* Bounds of the model.                                                    *)
(***************************************************************************)
MaxFrames == 2
MaxEvents == 3
MaxObjs == 5
MaxMass == 40
PosLimit == 10000
VelLimit == 1000000

(***************************************************************************)
(* Program constants, in the units above.                                  *)
(***************************************************************************)
\* G = 6.6743e-11 with `distance *= 1000` folded in:
\* G * MassUnit / 1000^2 = 6.6743e-11 * 1e21 / 1e6
GK == 66743
\* tenths of a unit per unit, squared (distances are kept in tenths)
PosScale2 == 100
\* tenths per unit: an acceleration in units is stored in tenths
PosScale == 10
\* accelerate(): velocity += x / 96
VelDivisor == 96
\* UpdatePos(): position += velocity / 94
PosDivisor == 94
\* CheckCollision(): -0.2f is -1/5
DampDivisor == 5
\* initMass = 10^22 kg
initMass == 10
\* default density of the Object constructor
defaultDensity == 3344
\* sizeRatio = 30000
sizeRatio == 30000
\* radius divisor of line 336 while a body is being created
initRatio == 1000000
\* 3 * MassUnit / (4 * 3.14159265359) in units of (10^4 m)^3
VolK == 238732415
\* 10^4 m per unit of the cube root, times ten tenths
LenK == 100000

\* CreateGridVertices(20000.0f, 25, objs) in main, scaled down to a grid of
\* one cell: the side of the grid in tenths, and the number of divisions
gridSize == 2000
gridDivisions == 1
\* 4 * sqrt(rs * distance_m) in tenths is sqrt(mass * distance * RsNum / RsDen)
\* for a distance in tenths: rs = 2 * G * MassUnit / c^2 = 1.48523e-6 m per
\* unit of mass, distance_m = 100 m per tenth, (40^2 * 1.48523e-4) = 24 / 101
RsNum == 24
RsDen == 101

Abs(a) == IF a >= 0 THEN a ELSE -a

\* division truncating toward zero, for a positive divisor
Quot(a, b) == IF a >= 0 THEN a \div b ELSE -((-a) \div b)

RECURSIVE SqrtFrom(_, _)
\* Newton's iteration for the square root of n, downwards from a guess g
\* that is not below the root
SqrtFrom(n, g) ==
  LET h == (g + n \div g) \div 2
  IN IF h >= g THEN g ELSE SqrtFrom(n, h)

\* floor of the square root
Sqrt(n) ==
  IF n < 2 THEN n
  ELSE SqrtFrom(n, IF n < 65536
                   THEN IF n < 256 THEN (IF n < 16 THEN 4 ELSE 16)
                        ELSE (IF n < 4096 THEN 64 ELSE 256)
                   ELSE IF n < 16777216
                        THEN (IF n < 1048576 THEN 1024 ELSE 4096)
                        ELSE (IF n < 268435456 THEN 16384 ELSE 46341))

RECURSIVE CbrtFrom(_, _)
\* Newton's iteration for the cube root of n, downwards from a guess g that
\* is not below the root
CbrtFrom(n, g) ==
  LET h == (2 * g + n \div (g * g)) \div 3
  IN IF h >= g THEN g ELSE CbrtFrom(n, h)

\* floor of the cube root
Cbrt(n) ==
  IF n < 2 THEN n
  ELSE CbrtFrom(n, IF n < 1000 THEN 10
                   ELSE IF n < 1000000 THEN 100
                   ELSE IF n < 1000000000 THEN 1000
                   ELSE 1291)

Vec(x, y, z) == <<x, y, z>>
Zero3 == Vec(0, 0, 0)
VAdd(a, b) == Vec(a[1] + b[1], a[2] + b[2], a[3] + b[3])
VSub(a, b) == Vec(a[1] - b[1], a[2] - b[2], a[3] - b[3])
VNeg(a) == Vec(-a[1], -a[2], -a[3])
VQuot(a, k) == Vec(Quot(a[1], k), Quot(a[2], k), Quot(a[3], k))

\* pow(((3 * mass/density)/(4 * 3.14159265359)), 1/3) / ratio
Radius(mass, density, ratio) ==
  (Cbrt((VolK \div density) * mass) * LenK) \div ratio

\* Object::Object
Object(initPosition, initVelocity, mass, density) ==
  [position |-> initPosition, velocity |-> initVelocity,
   mass |-> mass, density |-> density,
   radius |-> Radius(mass, density, sizeRatio),
   Initalizing |-> FALSE, Launched |-> FALSE]

\* squared distance between two bodies, in tenths squared
Dist2(a, b) ==
  LET d == VSub(b.position, a.position)
  IN d[1] * d[1] + d[2] * d[2] + d[3] * d[3]

\* float distance = sqrt(dx * dx + dy * dy + dz * dz)
Distance(a, b) == Sqrt(Dist2(a, b))

\* the pair guard without its test of obj2
PairActive_IgnoresObj2(os, i, j) ==
  i # j /\ ~os[i].Initalizing

\* if(&obj2 != &obj && !obj.Initalizing && !obj2.Initalizing)
PairActive(os, i, j) ==
  i # j /\ ~os[i].Initalizing /\ ~os[j].Initalizing

\* double Gforce = (G * obj.mass * obj2.mass) / (distance * distance), with
\* distance in metres.  The squared distance is taken in whole squared units;
\* below one unit it saturates at one (the resolution of the number model).
Gforce(a, b) ==
  LET d2 == Dist2(a, b) \div PosScale2
  IN (GK * a.mass * b.mass) \div (IF d2 < 1 THEN 1 ELSE d2)

\* the acceleration pointing away from the other body
Acc_Repulsive(a, b) ==
  LET d == VSub(a.position, b.position)
      distance == Distance(a, b)
      acc1 == (Gforce(a, b) * PosScale) \div a.mass
  IN Vec(Quot(d[1] * acc1, distance), Quot(d[2] * acc1, distance),
         Quot(d[3] * acc1, distance))

\* float acc1 = Gforce / obj.mass;  acc = direction * acc1, where
\* direction = {dx / distance, dy / distance, dz / distance}
Acc(a, b) ==
  LET d == VSub(b.position, a.position)
      distance == Distance(a, b)
      acc1 == (Gforce(a, b) * PosScale) \div a.mass
  IN Vec(Quot(d[1] * acc1, distance), Quot(d[2] * acc1, distance),
         Quot(d[3] * acc1, distance))

\* Object::accelerate: velocity += x / 96
accelerate(velocity, acc) == VAdd(velocity, VQuot(acc, VelDivisor))

\* the overlap test without the other body's radius
CheckCollision_OwnRadius(this, other) ==
  this.radius > Distance(this, other)

\* Object::CheckCollision: TRUE when it returns the damping factor -0.2f,
\* FALSE when it returns 1.0f.  radius sum > distance, with distance the
\* rounded-down root, is radius sum squared > squared distance.
CheckCollision(this, other) ==
  other.radius + this.radius > Distance(this, other)

\* obj.velocity *= obj.CheckCollision(obj2)
Damp(velocity, collided) ==
  IF collided THEN VQuot(VNeg(velocity), DampDivisor) ELSE velocity

\* Object::UpdatePos
UpdatePos(o) ==
  [o EXCEPT !.position = VAdd(o.position, VQuot(o.velocity, PosDivisor)),
            !.radius = Radius(o.mass, o.density, sizeRatio)]

\* the inner loop body with the damping factor outside the distance test
PairStep_DampsAtZero(os, i, j, st, p) ==
  IF PairActive(os, i, j)
  THEN LET far == Distance(os[i], os[j]) > 0
           v1 == IF ~p /\ far THEN accelerate(st.velocity, Acc(os[i], os[j]))
                 ELSE st.velocity
           hit == CheckCollision(os[i], os[j])
       IN [velocity |-> Damp(v1, hit),
           acc |-> IF ~p /\ far THEN st.acc \cup {<<i, j>>} ELSE st.acc,
           damp |-> IF hit THEN st.damp \cup {<<i, j>>} ELSE st.damp]
  ELSE st

\* body of the inner loop `for(auto& obj2 : objs)` for one obj2 = os[j]:
\* st.velocity is the velocity of obj = os[i]; st.acc and st.damp collect the
\* ordered pairs for which accelerate() ran and for which the velocity was
\* multiplied by the damping factor
PairStep(os, i, j, st, p) ==
  IF PairActive(os, i, j) /\ Distance(os[i], os[j]) > 0
  THEN LET v1 == IF ~p THEN accelerate(st.velocity, Acc(os[i], os[j]))
                 ELSE st.velocity
           hit == CheckCollision(os[i], os[j])
       IN [velocity |-> Damp(v1, hit),
           acc |-> IF ~p THEN st.acc \cup {<<i, j>>} ELSE st.acc,
           damp |-> IF hit THEN st.damp \cup {<<i, j>>} ELSE st.damp]
  ELSE st

RECURSIVE InnerLoop(_, _, _, _, _)
\* for(auto& obj2 : objs), from obj2 = objs[j] on
InnerLoop(os, i, j, st, p) ==
  IF j > Len(os) THEN st
  ELSE InnerLoop(os, i, j + 1, PairStep(os, i, j, st, p), p)

\* the rest of one pass with the position advanced by the velocity the
\* body had before the inner loop
Integrate_OldVelocity(o, velocity, p) ==
  LET o2 == IF o.Initalizing
            THEN [o EXCEPT !.radius = Radius(o.mass, o.density, initRatio)]
            ELSE o
  IN [(IF ~p THEN UpdatePos(o2) ELSE o2) EXCEPT !.velocity = velocity]

\* the rest of one pass of the outer loop, after the inner loop left obj
\* with this velocity
Integrate(o, velocity, p) ==
  LET o1 == [o EXCEPT !.velocity = velocity]
      o2 == IF o1.Initalizing
            THEN [o1 EXCEPT !.radius = Radius(o1.mass, o1.density, initRatio)]
            ELSE o1
  IN IF ~p THEN UpdatePos(o2) ELSE o2

RECURSIVE OuterLoop_WritesPartner(_, _, _)
\* the outer loop with a pass that also damps the partners it collided with
OuterLoop_WritesPartner(st, i, p) ==
  IF i > Len(st.objs) THEN st
  ELSE LET r == InnerLoop(st.objs, i, 1,
                          [velocity |-> st.objs[i].velocity,
                           acc |-> st.acc, damp |-> st.damp], p)
           os1 == [st.objs EXCEPT ![i] = Integrate(st.objs[i], r.velocity, p)]
           os2 == [j \in 1..Len(os1) |->
                     IF <<i, j>> \in r.damp
                     THEN [os1[j] EXCEPT !.velocity = Damp(@, TRUE)]
                     ELSE os1[j]]
       IN OuterLoop_WritesPartner([objs |-> os2, acc |-> r.acc,
                                   damp |-> r.damp], i + 1, p)

RECURSIVE OuterLoop(_, _, _)
\* for(auto& obj : objs), from obj = objs[i] on; st.objs is the registry as
\* the earlier passes left it
OuterLoop(st, i, p) ==
  IF i > Len(st.objs) THEN st
  ELSE LET r == InnerLoop(st.objs, i, 1,
                          [velocity |-> st.objs[i].velocity,
                           acc |-> st.acc, damp |-> st.damp], p)
       IN OuterLoop([objs |-> [st.objs EXCEPT
                                 ![i] = Integrate(st.objs[i], r.velocity, p)],
                     acc |-> r.acc, damp |-> r.damp],
                    i + 1, p)

\* the object loop of one frame over the registry os
Physics(os, p) == OuterLoop([objs |-> os, acc |-> {}, damp |-> {}], 1, p)

(***************************************************************************)
(* The grid.  A vertex is the record [x, y, z, nan] of three consecutive   *)
(* floats of the vertex vector; nan is TRUE when the float y is NaN (y is  *)
(* then kept at 0).                                                        *)
(***************************************************************************)
Vertex(x, y, z) == [x |-> x, y |-> y, z |-> z, nan |-> FALSE]

\* CreateGridVertices: the lines along X for every z, then the lines along
\* Z for every x, two vertices per line segment, all at one height y
CreateGridVertices(size, divisions) ==
  LET step == size \div divisions
      halfSize == size \div 2
      y == Quot(-halfSize * 3, 10) + 3 * step
      n == (divisions + 1) * divisions * 2
      at(k) == -halfSize + k * step
      xLine(k) == Vertex(at(((k % (2 * divisions)) \div 2) + (k % 2)), y,
                         at(k \div (2 * divisions)))
      zLine(k) == Vertex(at(k \div (2 * divisions)), y,
                         at(((k % (2 * divisions)) \div 2) + (k % 2)))
  IN [k \in 1..(2 * n) |-> IF k <= n THEN xLine(k - 1) ELSE zLine(k - 1 - n)]

RECURSIVE TotalMass(_, _)
\* totalMass += obj.mass over the non-creating bodies os[1..n]
TotalMass(os, n) ==
  IF n = 0 THEN 0
  ELSE TotalMass(os, n - 1) + (IF os[n].Initalizing THEN 0 ELSE os[n].mass)

RECURSIVE WeightedY(_, _)
\* comY += obj.mass * obj.position.y over the non-creating bodies os[1..n]
WeightedY(os, n) ==
  IF n = 0 THEN 0
  ELSE WeightedY(os, n - 1)
         + (IF os[n].Initalizing THEN 0 ELSE os[n].mass * os[n].position[2])

\* if (totalMass > 0) comY /= totalMass
ComY(os) ==
  IF TotalMass(os, Len(os)) > 0
  THEN Quot(WeightedY(os, Len(os)), TotalMass(os, Len(os)))
  ELSE WeightedY(os, Len(os))

\* originalMaxY = std::max(originalMaxY, vertices[i+1]) from -infinity:
\* std::max(a, b) keeps a when b is NaN.  When every vertex is NaN the code
\* is left with -infinity; with a body in the registry every vertex then
\* stays NaN whatever the shift, so 0 stands for it.
OriginalMaxY(vertices) ==
  LET ys == {vertices[k].y : k \in {j \in DOMAIN vertices : ~vertices[j].nan}}
  IN IF ys = {} THEN 0 ELSE CHOOSE m \in ys : \A y \in ys : y <= m

\* toObject = obj.GetPos() - vertexPos, its squared length
VertexDist2(v, o) ==
  LET p == o.position
  IN (p[1] - v.x) * (p[1] - v.x) + (p[2] - v.y) * (p[2] - v.y)
       + (p[3] - v.z) * (p[3] - v.z)

\* glm::length(toObject)
VertexDistance(v, o) == Sqrt(VertexDist2(v, o))

\* sqrt(rs * (distance_m - rs)) has a negative argument: on the lattice of
\* tenths rs is below every non-zero distance, so distance_m < rs is
\* distance = 0
InsideRs(v, o) == VertexDist2(v, o) = 0

\* dz * 2.0f = 4 * sqrt(rs * (distance_m - rs)) for distance_m >= rs
Depth(v, o) == Sqrt((o.mass * VertexDistance(v, o) * RsNum) \div RsDen)

RECURSIVE TotalDisplacement(_, _, _)
\* totalDisplacement.y += dz * 2.0f over os[1..n]: the sum, and whether one
\* of the terms was NaN (the root of a negative number, or a distance taken
\* from a vertex whose y is NaN already)
TotalDisplacement(v, os, n) ==
  IF n = 0 THEN [y |-> 0, nan |-> FALSE]
  ELSE LET t == TotalDisplacement(v, os, n - 1)
       IN IF t.nan \/ v.nan \/ InsideRs(v, os[n])
          THEN [y |-> 0, nan |-> TRUE]
          ELSE [y |-> t.y + Depth(v, os[n]), nan |-> FALSE]

\* the loop body that writes x as well as y
WarpVertex_MovesX(v, os, verticalShift) ==
  LET t == TotalDisplacement(v, os, Len(os))
  IN IF t.nan THEN [v EXCEPT !.y = 0, !.nan = TRUE]
     ELSE [v EXCEPT !.x = @ + t.y, !.y = t.y - Abs(verticalShift)]

\* vertices[i+1] = totalDisplacement.y + -abs(verticalShift)
WarpVertex(v, os, verticalShift) ==
  LET t == TotalDisplacement(v, os, Len(os))
  IN IF t.nan THEN [v EXCEPT !.y = 0, !.nan = TRUE]
     ELSE [v EXCEPT !.y = t.y - Abs(verticalShift)]

\* UpdateGridVertices(vertices, objs); the vertices of equal coordinates are
\* warped alike
UpdateGridVertices(vertices, os) ==
  LET verticalShift == ComY(os) - OriginalMaxY(vertices)
      warped == [v \in {vertices[k] : k \in DOMAIN vertices} |->
                   WarpVertex(v, os, verticalShift)]
  IN [k \in DOMAIN vertices |-> warped[vertices[k]]]

\* objs.back().mass *= 1.0 + 1.0 * deltaTime, deltaTime in milliseconds
GrownMass(mass, dt) == (mass * (1000 + dt)) \div 1000

\* the growth step without its test of the creating flag
Grow_AnyBody(os, dt, held) ==
  LET n == Len(os)
  IN IF n > 0 /\ held
     THEN [os EXCEPT ![n] = [@ EXCEPT !.mass = GrownMass(os[n].mass, dt)]]
     ELSE os

\* the growth step without any of its tests: the last body grows with the
\* frame delta in every frame
Grow_EveryFrame(os, dt, held) ==
  LET n == Len(os)
  IN [os EXCEPT ![n] = [@ EXCEPT !.mass = GrownMass(os[n].mass, dt)]]

\* the growth step at the head of the frame
Grow(os, dt, held) ==
  LET n == Len(os)
  IN IF n > 0 /\ os[n].Initalizing /\ held
     THEN LET m == GrownMass(os[n].mass, dt)
          IN [os EXCEPT ![n] =
                [@ EXCEPT !.mass = m,
                          !.radius = Radius(m, os[n].density, sizeRatio)]]
     ELSE os

\* the simulated world the number model can hold without overflow
InRange(os) ==
  \A i \in 1..Len(os) :
     /\ os[i].mass <= MaxMass
     /\ \A k \in 1..3 : /\ Abs(os[i].position[k]) <= PosLimit
                        /\ Abs(os[i].velocity[k]) <= VelLimit

\* the pre-loaded registry (objs = {...} in main), in the model's units
Scenes ==
  { \* two orbiters around a central body
    << Object(Vec(-3000, 400, -200), Vec(0, 0, 15000), 6, 5515),
       Object(Vec(3000, 400, -200), Vec(0, 0, -15000), 6, 5515),
       Object(Vec(0, 0, -450), Zero3, 40, 5515) >>,
    \* two dense bodies of equal mass at rest, apart
    << Object(Vec(-50, 0, 0), Zero3, 10, 1000000),
       Object(Vec(50, 0, 0), Zero3, 10, 1000000) >>,
    \* two bodies whose spheres overlap, the first one moving
    << Object(Vec(-295, 0, 0), Vec(-10000, 0, 0), 10, 3344),
       Object(Vec(295, 0, 0), Zero3, 10, 3344) >>,
    \* a body at the origin overlapped by two others
    << Object(Vec(300, 0, 0), Vec(0, 500, 0), 10, 3344),
       Object(Zero3, Vec(0, 0, 1000), 40, 5515),
       Object(Vec(-300, 0, 0), Vec(0, -500, 0), 10, 3344) >>,
    \* one body at rest on the first vertex of the grid
    LET v == CreateGridVertices(gridSize, gridDivisions)[1]
    IN << Object(Vec(v.x, v.y, v.z), Zero3, 10, 3344) >> }

DeltaTimes == {0, 100}

Init ==
  /\ objs \in Scenes
  /\ pause = TRUE
  /\ running = TRUE
  /\ deltaTime = 0
  /\ rightDown = FALSE
  /\ kDown = FALSE
  /\ frames = 0
  /\ events = 0
  /\ lastOp = "init"
  /\ accPairs = {}
  /\ dampPairs = {}
  /\ gridVertices = CreateGridVertices(gridSize, gridDivisions)

\* one iteration of the main loop, up to glfwPollEvents: the growth step,
\* then the grid update, then the object loop
Frame(dt) ==
  /\ running
  /\ frames < MaxFrames
  /\ InRange(objs)
  /\ InRange(Grow(objs, dt, rightDown))
  /\ LET r == Physics(Grow(objs, dt, rightDown), pause)
     IN /\ objs' = r.objs
        /\ accPairs' = r.acc
        /\ dampPairs' = r.damp
  /\ gridVertices' = UpdateGridVertices(gridVertices, Grow(objs, dt, rightDown))
  /\ deltaTime' = dt
  /\ frames' = frames + 1
  /\ lastOp' = "frame"
  /\ UNCHANGED <<pause, running, rightDown, kDown, events>>

\* the appended object without its creating flag
NewBody_NotCreating == Object(Zero3, Zero3, initMass, defaultDensity)

\* the appended object with a velocity of its own
NewBody_Moving ==
  [Object(Zero3, Vec(0, 0, VelDivisor * PosDivisor), initMass, defaultDensity)
     EXCEPT !.Initalizing = TRUE]

\* the object mouseButtonCallback appends on a left press
NewBody ==
  [Object(Zero3, Zero3, initMass, defaultDensity) EXCEPT !.Initalizing = TRUE]

\* a left release that marks the body launched and leaves it creating
MouseObjs_ReleaseKeepsCreating(os, button, action) ==
  LET n == Len(os)
  IN IF button = "LEFT" /\ action = "PRESS"
     THEN Append(os, [Object(Zero3, Zero3, initMass, defaultDensity)
                        EXCEPT !.Initalizing = TRUE])
     ELSE IF button = "LEFT" /\ action = "RELEASE"
     THEN [os EXCEPT ![n] = [@ EXCEPT !.Launched = TRUE]]
     ELSE os

\* a left press that also puts the previous last body back into creation
MouseObjs_PressReopensLast(os, button, action) ==
  LET n == Len(os)
  IN IF button = "LEFT" /\ action = "PRESS"
     THEN Append([os EXCEPT ![n] = [@ EXCEPT !.Initalizing = TRUE]],
                 [Object(Zero3, Zero3, initMass, defaultDensity)
                    EXCEPT !.Initalizing = TRUE])
     ELSE IF button = "LEFT" /\ action = "RELEASE"
     THEN [os EXCEPT ![n] = [@ EXCEPT !.Initalizing = FALSE,
                                      !.Launched = TRUE]]
     ELSE os

\* a left release that removes the last body from the registry
MouseObjs_ReleaseRemoves(os, button, action) ==
  LET n == Len(os)
  IN IF button = "LEFT" /\ action = "PRESS"
     THEN Append(os, [Object(Zero3, Zero3, initMass, defaultDensity)
                        EXCEPT !.Initalizing = TRUE])
     ELSE IF button = "LEFT" /\ action = "RELEASE"
     THEN SubSeq(os, 1, n - 1)
     ELSE os

\* objs after mouseButtonCallback(button, action)
MouseObjs(os, button, action) ==
  LET n == Len(os)
  IN IF button = "LEFT" /\ action = "PRESS" THEN Append(os, NewBody)
     ELSE IF button = "LEFT" /\ action = "RELEASE"
     THEN [os EXCEPT ![n] = [@ EXCEPT !.Initalizing = FALSE,
                                      !.Launched = TRUE]]
     ELSE IF n > 0 /\ button = "RIGHT" /\ os[n].Initalizing
             /\ action = "PRESS"
     THEN [os EXCEPT ![n] = [@ EXCEPT !.mass = (@ * 12) \div 10]]
     ELSE os

\* mouseButtonCallback, dispatched by glfwPollEvents at the end of a frame
mouseButtonCallback(button, action) ==
  /\ running
  /\ frames > 0
  /\ events < MaxEvents
  /\ Len(MouseObjs(objs, button, action)) <= MaxObjs
  /\ InRange(MouseObjs(objs, button, action))
  /\ objs' = MouseObjs(objs, button, action)
  /\ rightDown' = IF button = "RIGHT" THEN action = "PRESS" ELSE rightDown
  /\ events' = events + 1
  /\ lastOp' = "mouse"
  /\ UNCHANGED <<pause, running, deltaTime, kDown, frames, accPairs, dampPairs,
                 gridVertices>>

\* the displacement of one arrow-key event: radius * 0.2 per affected axis
Nudge(o, key, shiftPressed) ==
  LET s == (o.radius * 2) \div 10
      dy == IF shiftPressed THEN 0 ELSE s
  IN IF key = "UP" THEN Vec(0, dy, s)
     ELSE IF key = "DOWN" THEN Vec(0, -dy, -s)
     ELSE IF key = "RIGHT" THEN Vec(s, 0, 0)
     ELSE IF key = "LEFT" THEN Vec(-s, 0, 0)
     ELSE Zero3

\* the nudge without its test of the creating flag
KeyObjs_NudgesAnyBody(os, key, action, shiftPressed) ==
  LET n == Len(os)
  IN IF n > 0 /\ action \in {"PRESS", "REPEAT"}
     THEN [os EXCEPT ![n] =
             [@ EXCEPT !.position = VAdd(@, Nudge(os[n], key, shiftPressed))]]
     ELSE os

\* objs after keyCallback(key, action, mods)
KeyObjs(os, key, action, shiftPressed) ==
  LET n == Len(os)
  IN IF n > 0 /\ os[n].Initalizing /\ action \in {"PRESS", "REPEAT"}
     THEN [os EXCEPT ![n] =
             [@ EXCEPT !.position = VAdd(@, Nudge(os[n], key, shiftPressed))]]
     ELSE os

Keys == {"K", "Q", "W", "UP", "DOWN", "LEFT", "RIGHT"}

\* the key handler without its test of the Q key
keyCallback_IgnoresQuit(key, action, shiftPressed) ==
  /\ running
  /\ frames > 0
  /\ events < MaxEvents
  /\ InRange(KeyObjs(objs, key, action, shiftPressed))
  /\ kDown' = IF key = "K" THEN action # "RELEASE" ELSE kDown
  /\ pause' = kDown'
  /\ objs' = KeyObjs(objs, key, action, shiftPressed)
  /\ events' = events + 1
  /\ lastOp' = "key"
  /\ UNCHANGED <<running, deltaTime, rightDown, frames, accPairs, dampPairs,
                 gridVertices>>

\* keyCallback, dispatched by glfwPollEvents at the end of a frame; GLFW has
\* updated the key's state before the callback reads it with glfwGetKey
keyCallback(key, action, shiftPressed) ==
  /\ running
  /\ frames > 0
  /\ events < MaxEvents
  /\ InRange(KeyObjs(objs, key, action, shiftPressed))
  /\ kDown' = IF key = "K" THEN action # "RELEASE" ELSE kDown
  /\ pause' = kDown'
  /\ running' = ~(key = "Q" /\ action # "RELEASE")
  /\ objs' = KeyObjs(objs, key, action, shiftPressed)
  /\ events' = events + 1
  /\ lastOp' = "key"
  /\ UNCHANGED <<deltaTime, rightDown, frames, accPairs, dampPairs,
                 gridVertices>>

Next ==
  \/ \E dt \in DeltaTimes : Frame(dt)
  \/ \E button \in {"LEFT", "RIGHT"}, action \in {"PRESS", "RELEASE"} :
        mouseButtonCallback(button, action)
  \/ \E key \in Keys, action \in {"PRESS", "RELEASE", "REPEAT"} :
        \* mods is read for the UP and DOWN keys only
        \E shiftPressed \in IF key \in {"UP", "DOWN"} THEN BOOLEAN ELSE {FALSE} :
           keyCallback(key, action, shiftPressed)

Spec == Init /\ [][Next]_vars

\* a left release dispatched however many callbacks ran before it: the
\* count of callbacks stays at its bound
releaseEvent ==
  /\ running
  /\ frames > 0
  /\ objs' = MouseObjs(objs, "LEFT", "RELEASE")
  /\ events' = IF events < MaxEvents THEN events + 1 ELSE events
  /\ lastOp' = "mouse"
  /\ UNCHANGED <<pause, running, deltaTime, rightDown, kDown, frames, accPairs,
                 dampPairs, gridVertices>>

NextLive == Next \/ releaseEvent

\* the program with a user who keeps releasing the left button: a release
\* event that would change the state is eventually delivered
SpecLive == Init /\ [][NextLive]_vars /\ WF_vars(releaseEvent)

(***************************************************************************)
(* The bodies in float magnitudes.  The fixed-point numbers above cannot   *)
(* leave the range of the simulated world; a float can: the mass of the    *)
(* body under construction is multiplied frame after frame.  Here a mass   *)
(* is a binary float [m, e] of value m * 2^e (in MassUnit, m normalised    *)
(* into MantMin .. 2 * MantMin - 1) or the float infinity, and a radius, a *)
(* position component or a velocity component is one of the classes        *)
(* "fin", "pinf", "ninf", "nan".  The registry holds one pre-loaded body   *)
(* and the bodies under construction, so the guard of the inner loop fails *)
(* for every pair; the grid reads the bodies and never writes them, and is *)
(* left out.                                                               *)
(***************************************************************************)
MaxFrames32 == 57
MaxEvents32 == 3
MaxObjs32 == 2

\* the smallest normalised mantissa
MantMin == 32768
\* FLT_MAX = 3.4028235e38 kg is FloatMaxMant * 2^FloatMaxExp MassUnit
FloatMaxMant == 38686
FloatMaxExp == 43

Infinity == [inf |-> TRUE, m |-> 0, e |-> 0]

RECURSIVE Norm32(_, _)
\* the float of value m * 2^e, m > 0: the mantissa normalised (rounded
\* toward zero), infinity beyond FLT_MAX
Norm32(m, e) ==
  IF m >= 2 * MantMin THEN Norm32(m \div 2, e + 1)
  ELSE IF m < MantMin THEN Norm32(m * 2, e - 1)
  ELSE IF e > FloatMaxExp \/ (e = FloatMaxExp /\ m > FloatMaxMant)
       THEN Infinity
       ELSE [inf |-> FALSE, m |-> m, e |-> e]

\* the float x * num / den
Scale32(x, num, den) ==
  IF x.inf THEN x ELSE Norm32((x.m * num) \div den, x.e)

\* the class of pow((3 * mass / density) / (4 * pi), 1/3) / ratio: the
\* product 3 * mass is a float and overflows before the mass does
Radius32(mass) == IF Scale32(mass, 3, 1).inf THEN "pinf" ELSE "fin"

\* a + b on classes
Add32(a, b) ==
  IF a = "nan" \/ b = "nan" THEN "nan"
  ELSE IF a = "fin" THEN b
  ELSE IF b = "fin" \/ a = b THEN a
  ELSE "nan"

\* -a on classes
Neg32(a) == IF a = "pinf" THEN "ninf" ELSE IF a = "ninf" THEN "pinf" ELSE a

Fin3 == <<"fin", "fin", "fin">>

\* Object::Object for a finite position and a finite velocity
Object32(mass) ==
  [position |-> Fin3, velocity |-> Fin3, mass |-> mass,
   density |-> defaultDensity, radius |-> Radius32(mass),
   Initalizing |-> FALSE, Launched |-> FALSE]

\* the growth step at the head of the frame
Grow32(os, dt, held) ==
  LET n == Len(os)
  IN IF n > 0 /\ os[n].Initalizing /\ held
     THEN LET m == Scale32(os[n].mass, 1000 + dt, 1000)
          IN [os EXCEPT ![n] = [@ EXCEPT !.mass = m, !.radius = Radius32(m)]]
     ELSE os

\* Object::UpdatePos: position += velocity / 94, the radius recomputed
UpdatePos32(o) ==
  [o EXCEPT !.position = [k \in 1..3 |-> Add32(o.position[k], o.velocity[k])],
            !.radius = Radius32(o.mass)]

\* one pass of the outer loop for a body whose inner loop has no active
\* pair
Integrate32(o, p) ==
  LET o2 == IF o.Initalizing THEN [o EXCEPT !.radius = Radius32(o.mass)]
            ELSE o
  IN IF ~p THEN UpdatePos32(o2) ELSE o2

\* the object loop of one frame
Physics32(os, p) == [i \in 1..Len(os) |-> Integrate32(os[i], p)]

\* the displacement of one arrow-key event: radius * 0.2 per affected axis
Nudge32(o, key, shiftPressed) ==
  LET s == o.radius
      dy == IF shiftPressed THEN "fin" ELSE s
  IN IF key = "UP" THEN <<"fin", dy, s>>
     ELSE IF key = "DOWN" THEN <<"fin", Neg32(dy), Neg32(s)>>
     ELSE IF key = "RIGHT" THEN <<s, "fin", "fin">>
     ELSE IF key = "LEFT" THEN <<Neg32(s), "fin", "fin">>
     ELSE Fin3

\* objs after keyCallback(key, action, mods)
KeyObjs32(os, key, action, shiftPressed) ==
  LET n == Len(os)
      d == Nudge32(os[n], key, shiftPressed)
  IN IF n > 0 /\ os[n].Initalizing /\ action \in {"PRESS", "REPEAT"}
     THEN [os EXCEPT ![n] =
             [@ EXCEPT !.position = [k \in 1..3 |-> Add32(@[k], d[k])]]]
     ELSE os

\* objs after mouseButtonCallback(button, action)
MouseObjs32(os, button, action) ==
  LET n == Len(os)
  IN IF button = "LEFT" /\ action = "PRESS"
     THEN Append(os, [Object32(Norm32(initMass, 0)) EXCEPT !.Initalizing = TRUE])
     ELSE IF button = "LEFT" /\ action = "RELEASE"
     THEN [os EXCEPT ![n] = [@ EXCEPT !.Initalizing = FALSE,
                                      !.Launched = TRUE]]
     ELSE IF n > 0 /\ button = "RIGHT" /\ os[n].Initalizing
             /\ action = "PRESS"
     THEN [os EXCEPT ![n] = [@ EXCEPT !.mass = Scale32(@, 12, 10)]]
     ELSE os

\* a frame delta of a tenth of a second, and a stalled frame of one second
DeltaTimes32 == {100, 1000}

Init32 ==
  /\ objs = << Object32(Norm32(MaxMass, 0)) >>
  /\ pause = TRUE
  /\ running = TRUE
  /\ deltaTime = 0
  /\ rightDown = FALSE
  /\ kDown = FALSE
  /\ frames = 0
  /\ events = 0
  /\ lastOp = "init"
  /\ accPairs = {}
  /\ dampPairs = {}
  /\ gridVertices = CreateGridVertices(gridSize, gridDivisions)

\* one iteration of the main loop, up to glfwPollEvents
Frame32(dt) ==
  /\ running
  /\ frames < MaxFrames32
  /\ \A i, j \in 1..Len(objs) : ~PairActive(objs, i, j)
  /\ objs' = Physics32(Grow32(objs, dt, rightDown), pause)
  /\ deltaTime' = dt
  /\ frames' = frames + 1
  /\ lastOp' = "frame"
  /\ UNCHANGED <<pause, running, rightDown, kDown, events, accPairs,
                 dampPairs, gridVertices>>

\* mouseButtonCallback, dispatched by glfwPollEvents at the end of a frame
mouseButtonCallback32(button, action) ==
  /\ running
  /\ frames > 0
  /\ events < MaxEvents32
  /\ Len(MouseObjs32(objs, button, action)) <= MaxObjs32
  /\ objs' = MouseObjs32(objs, button, action)
  /\ rightDown' = IF button = "RIGHT" THEN action = "PRESS" ELSE rightDown
  /\ events' = events + 1
  /\ lastOp' = "mouse"
  /\ UNCHANGED <<pause, running, deltaTime, kDown, frames, accPairs, dampPairs,
                 gridVertices>>

\* keyCallback, dispatched by glfwPollEvents at the end of a frame
keyCallback32(key, action, shiftPressed) ==
  /\ running
  /\ frames > 0
  /\ events < MaxEvents32
  /\ kDown' = IF key = "K" THEN action # "RELEASE" ELSE kDown
  /\ pause' = kDown'
  /\ running' = ~(key = "Q" /\ action # "RELEASE")
  /\ objs' = KeyObjs32(objs, key, action, shiftPressed)
  /\ events' = events + 1
  /\ lastOp' = "key"
  /\ UNCHANGED <<deltaTime, rightDown, frames, accPairs, dampPairs,
                 gridVertices>>

\* the events of the construction of a body: a create, the grow button,
\* the keys; no release
Next32 ==
  \/ \E dt \in DeltaTimes32 : Frame32(dt)
  \/ \E click \in {<<"LEFT", "PRESS">>, <<"RIGHT", "PRESS">>,
                    <<"RIGHT", "RELEASE">>} :
        mouseButtonCallback32(click[1], click[2])
  \/ \E key \in Keys, action \in {"PRESS", "RELEASE", "REPEAT"} :
        \E shiftPressed \in IF key \in {"UP", "DOWN"} THEN BOOLEAN ELSE {FALSE} :
           keyCallback32(key, action, shiftPressed)

Spec32 == Init32 /\ [][Next32]_vars

(***************************************************************************)
(* Vocabulary of the properties.                                           *)
(***************************************************************************)
\* this step is one iteration of the main loop
FrameStep == frames' = frames + 1

Bodies == 1..Len(objs)
Last == Len(objs)
NotCreating(o) == ~o.Initalizing

\* The outer loop updates the registry in place: when the pass of body i
\* reads body j, a body before i is already as the frame leaves it and a
\* body after i is still as the frame found it.
SeenBy(i, j) == IF j < i THEN objs'[j] ELSE objs[j]

\* the distance from body i to body j as the pass of body i computes it
DistanceSeen(i, j) == Distance(objs[i], SeenBy(i, j))

\* the number of damping factors body i received in the latest frame
Damped(i) == Cardinality({pr \in dampPairs : pr[1] = i})

(***************************************************************************)
(* C1: while the pause flag is set, a frame changes neither the velocity   *)
(* nor the position of any body.                                           *)
(***************************************************************************)
C1_PausedFrameFreezesBodies ==
  [][FrameStep /\ pause =>
       \A i \in Bodies : /\ objs'[i].velocity = objs[i].velocity
                         /\ objs'[i].position = objs[i].position]_vars

(***************************************************************************)
(* C2: a body in the Creating state takes no part in physics: a frame      *)
(* leaves its velocity and position unchanged, no acceleration or damping  *)
(* is applied to it or on account of it, and the other bodies end the      *)
(* frame exactly as they would if the creating bodies were not in the      *)
(* registry.  Its position changes only in a key (nudge) event.           *)
(***************************************************************************)
C2_CreatingTakesNoPart ==
  [][/\ \A i \in Bodies :
          objs[i].Initalizing /\ objs'[i].position # objs[i].position
            => lastOp' = "key"
     /\ FrameStep =>
       /\ \A i \in Bodies : objs[i].Initalizing =>
            /\ objs'[i].velocity = objs[i].velocity
            /\ objs'[i].position = objs[i].position
            /\ \A pr \in accPairs' \cup dampPairs' : pr[1] # i /\ pr[2] # i
       /\ SelectSeq(objs', NotCreating)
            = Physics(SelectSeq(objs, NotCreating), pause).objs]_vars

\* an unpaused frame has just run with a creating body in the registry and
\* accelerations among the others
C2_Witness ==
  /\ lastOp = "frame"
  /\ ~pause
  /\ accPairs # {}
  /\ \E i \in Bodies : objs[i].Initalizing

(***************************************************************************)
(* C3: Launched is terminal: a launched body stays launched and is never   *)
(* in the Creating state again, and no body is Creating and Launched at    *)
(* the same time.                                                          *)
(***************************************************************************)
C3_LaunchedIsTerminal ==
  /\ [](\A i \in Bodies : ~(objs[i].Initalizing /\ objs[i].Launched))
  /\ [][\A i \in Bodies : objs[i].Launched =>
          /\ i <= Len(objs')
          /\ objs'[i].Launched
          /\ ~objs'[i].Initalizing]_vars

\* a launched body followed in the registry by a body under construction
C3_Witness ==
  \E i, j \in Bodies : i < j /\ objs[i].Launched /\ objs[j].Initalizing

(***************************************************************************)
(* C4 as stated: a release while a body is Creating clears its creating    *)
(* flag and marks it launched, and in every unpaused frame a launched body *)
(* both receives acceleration from and exerts acceleration on every other  *)
(* non-creating body.                                                      *)
(***************************************************************************)
C4_ReleaseLaunches ==
  mouseButtonCallback("LEFT", "RELEASE") /\ objs[Last].Initalizing
    => /\ Len(objs') = Len(objs)
       /\ ~objs'[Last].Initalizing
       /\ objs'[Last].Launched

C4_Original ==
  [][/\ C4_ReleaseLaunches
     /\ FrameStep /\ ~pause =>
          \A i, j \in Bodies :
             i # j /\ objs[i].Launched /\ ~objs[j].Initalizing
               => <<i, j>> \in accPairs' /\ <<j, i>> \in accPairs']_vars

(***************************************************************************)
(* C4 as amended: ... every other non-creating body that is at non-zero    *)
(* distance from it when the pair is processed (a pair at distance zero    *)
(* is skipped).                                                            *)
(***************************************************************************)
C4_LaunchedJoinsPhysics ==
  [][/\ C4_ReleaseLaunches
     /\ FrameStep /\ ~pause =>
          \A i, j \in Bodies :
             i # j /\ objs[i].Launched /\ ~objs[j].Initalizing
               => /\ <<i, j>> \in accPairs' <=> DistanceSeen(i, j) > 0
                  /\ <<j, i>> \in accPairs' <=> DistanceSeen(j, i) > 0]_vars

\* an unpaused frame has just run in which a body appended by a create
\* event and then released was accelerated by, and accelerated, a
\* pre-loaded body
C4_Witness ==
  /\ lastOp = "frame"
  /\ Len(objs) = 3
  /\ objs[1].density # defaultDensity /\ objs[2].density # defaultDensity
  /\ objs[3].Launched
  /\ <<3, 1>> \in accPairs /\ <<1, 3>> \in accPairs

(***************************************************************************)
(* C5: a create event appends exactly one new body to the end of the       *)
(* registry, at the origin with zero velocity, the default mass and the    *)
(* default density, Creating and not launched; every body already in the   *)
(* registry is left unchanged.                                             *)
(***************************************************************************)
C5_CreateAppendsOneBody ==
  [][mouseButtonCallback("LEFT", "PRESS") =>
       /\ Len(objs') = Len(objs) + 1
       /\ SubSeq(objs', 1, Len(objs)) = objs
       /\ objs'[Len(objs')].position = Zero3
       /\ objs'[Len(objs')].velocity = Zero3
       /\ objs'[Len(objs')].mass = initMass
       /\ objs'[Len(objs')].density = defaultDensity
       /\ objs'[Len(objs')].Initalizing
       /\ ~objs'[Len(objs')].Launched]_vars

\* a create event has just appended a body to the pre-loaded registry
C5_Witness ==
  /\ lastOp = "mouse"
  /\ events = 1
  /\ objs[Last].Initalizing
  /\ \E sc \in Scenes : objs = Append(sc, objs[Last])

(***************************************************************************)
(* C6: in every frame in which a body is Creating and the grow input is    *)
(* held, that body's mass after the frame is strictly greater than before, *)
(* for every measured frame delta.                                         *)
(***************************************************************************)
C6_GrowStrictlyIncreases ==
  [][FrameStep /\ objs[Last].Initalizing /\ rightDown
       => objs'[Last].mass > objs[Last].mass]_vars

(***************************************************************************)
(* C7: the mass and density of a body that is not in the Creating state    *)
(* never change, in any frame and under any input event.                   *)
(***************************************************************************)
C7_MassFixedUnlessCreating ==
  [][\A i \in Bodies : ~objs[i].Initalizing =>
        /\ i <= Len(objs')
        /\ objs'[i].mass = objs[i].mass
        /\ objs'[i].density = objs[i].density]_vars

\* a frame with a positive delta has just run with the grow button held
\* and no body under construction
C7_Witness ==
  /\ lastOp = "frame"
  /\ rightDown
  /\ deltaTime > 0
  /\ objs[Last].Launched
  /\ \A i \in Bodies : ~objs[i].Initalizing

\* the spheres of body i and body j overlap as the pass of body i sees them
OverlapSeen(i, j) ==
  objs[i].radius + SeenBy(i, j).radius > DistanceSeen(i, j)

\* the other non-creating bodies
Partners(i) == {j \in Bodies \ {i} : ~objs[j].Initalizing}

(***************************************************************************)
(* C8 as stated: in one unpaused frame a non-creating body whose sphere    *)
(* overlaps k other non-creating bodies (distance < sum of radii) has the  *)
(* damping factor applied to its velocity exactly k times.                 *)
(***************************************************************************)
C8_Original ==
  [][FrameStep /\ ~pause =>
       \A i \in Bodies : ~objs[i].Initalizing =>
          \A j \in Partners(i) :
             <<i, j>> \in dampPairs' <=> OverlapSeen(i, j)]_vars

(***************************************************************************)
(* C8 as amended: in one unpaused frame a non-creating body has the        *)
(* damping factor applied once for each other non-creating body whose      *)
(* sphere overlaps its own at non-zero distance when the pair is           *)
(* processed (0 < distance < sum of radii), so k such partners give k      *)
(* applications; a partner at distance zero gives none.                    *)
(***************************************************************************)
C8_DampingPerPartner ==
  [][FrameStep /\ ~pause =>
       \A i \in Bodies :
          /\ ~objs[i].Initalizing =>
               /\ \A j \in Partners(i) :
                     <<i, j>> \in dampPairs'
                       <=> OverlapSeen(i, j) /\ DistanceSeen(i, j) > 0
               /\ Cardinality({pr \in dampPairs' : pr[1] = i})
                    = Cardinality({j \in Partners(i) :
                         OverlapSeen(i, j) /\ DistanceSeen(i, j) > 0})
          /\ \A pr \in dampPairs' : pr[1] = i => pr[2] \in Partners(i)]_vars

\* an unpaused frame has just damped one body twice, once for each of two
\* overlapping partners
C8_Witness ==
  /\ lastOp = "frame"
  /\ ~pause
  /\ \E i \in Bodies : Damped(i) = 2

C10_EqualAndOpposite ==
  [][/\ FrameStep /\ ~pause
     /\ Len(objs) = 2
     /\ ~objs[1].Initalizing /\ ~objs[2].Initalizing
     /\ objs[1].mass = objs[2].mass
     /\ objs[1].velocity = Zero3 /\ objs[2].velocity = Zero3
     /\ Distance(objs[1], objs[2]) > 0
     /\ Distance(objs[1], objs[2]) >= objs[1].radius + objs[2].radius
     => VAdd(objs'[1].velocity, objs'[2].velocity) = Zero3]_vars

(***************************************************************************)
(* C11: a pair of bodies at exactly zero distance is skipped for the       *)
(* frame: no acceleration and no damping factor is applied to either body  *)
(* on account of that pair although their spheres overlap (a body whose    *)
(* partners are all at zero distance keeps its velocity), and every other  *)
(* pair of non-creating bodies is processed normally: accelerated when the *)
(* frame is not paused, damped exactly when the spheres overlap.           *)
(***************************************************************************)
C11_ZeroDistanceSkipped ==
  [][FrameStep =>
       \A i \in Bodies : ~objs[i].Initalizing =>
          /\ \A j \in Partners(i) :
                IF DistanceSeen(i, j) = 0
                THEN /\ OverlapSeen(i, j)
                     /\ <<i, j>> \notin accPairs' \cup dampPairs'
                ELSE /\ <<i, j>> \in accPairs' <=> ~pause
                     /\ <<i, j>> \in dampPairs' <=> OverlapSeen(i, j)
          /\ (\A j \in Partners(i) : DistanceSeen(i, j) = 0)
                => objs'[i].velocity = objs[i].velocity]_vars

\* an unpaused frame has just skipped one partner of a body and accelerated
\* the body for another
C11_Witness ==
  /\ lastOp = "frame"
  /\ ~pause
  /\ \E i, j, k \in Bodies :
        /\ i # j /\ ~objs[i].Initalizing /\ ~objs[j].Initalizing
        /\ <<i, j>> \notin accPairs
        /\ <<i, k>> \in accPairs

\* the registry the latest frame handed to UpdateGridVertices
GridBodies == Grow(objs, deltaTime', rightDown)

(***************************************************************************)
(* C12: grid recomputation is idempotent: recomputing the grid a second    *)
(* time for the same bodies gives the vertex data of the first             *)
(* recomputation (the result does not depend on the displaced vertices it  *)
(* starts from).                                                           *)
(***************************************************************************)
C12_GridIdempotent ==
  [][FrameStep =>
       UpdateGridVertices(gridVertices', GridBodies) = gridVertices']_vars

(***************************************************************************)
(* C13: a body closer to a vertex than its Schwarzschild radius            *)
(* contributes a depth of exactly zero, so no NaN is ever written into the *)
(* vertical component of a grid vertex.                                    *)
(***************************************************************************)
C13_NoNaNInGrid ==
  \A k \in DOMAIN gridVertices : ~gridVertices[k].nan

(***************************************************************************)
(* C14: the bodies that contribute depth to the grid in a frame are the    *)
(* launched ones: a body in the Creating state contributes nothing, so the *)
(* grid of the frame is the grid computed without the creating bodies.     *)
(***************************************************************************)
C14_CreatingContributesNothing ==
  [][FrameStep =>
       gridVertices'
         = UpdateGridVertices(gridVertices,
                              SelectSeq(GridBodies, NotCreating))]_vars

\* the grid as main constructs it before the loop
InitialGrid == CreateGridVertices(gridSize, gridDivisions)

C16_GridFromUpdatedBodies ==
  [][FrameStep =>
       gridVertices' = UpdateGridVertices(gridVertices, objs')]_vars

(***************************************************************************)
(* C17: the radius is always derived from the current mass: in every       *)
(* state, for every body (pre-loaded, Creating or Launched, paused or      *)
(* not), radius = cuberoot(3 * mass / (4 * pi * density)) / sizeRatio for  *)
(* the body's current mass and the one configured scale factor.            *)
(***************************************************************************)
C17_RadiusDerivedFromMass ==
  \A i \in Bodies :
     objs[i].radius = Radius(objs[i].mass, objs[i].density, sizeRatio)

(***************************************************************************)
(* C18: the registry is never empty and never shrinks: its size is         *)
(* non-decreasing, a key or mouse-button event leaves every body before    *)
(* the last one as it was at its index, and so the last body that the key  *)
(* handler, the mouse-button handler and the growth step access always     *)
(* exists, whatever the sequence of events (a release without a create     *)
(* included).                                                              *)
(***************************************************************************)
C18_RegistryNeverShrinks ==
  /\ [](Len(objs) >= 1)
  /\ [][/\ Len(objs') >= Len(objs)
        /\ FrameStep => Len(objs') = Len(objs)
        /\ ~FrameStep => \A i \in 1..(Len(objs) - 1) : objs'[i] = objs[i]]_vars

\* a release was the first event, with no create before it
C18_Witness ==
  /\ lastOp = "mouse"
  /\ events = 1
  /\ objs[Last].Launched
  /\ \E sc \in Scenes : Len(objs) = Len(sc)

(***************************************************************************)
(* C19: a Quit event (the Q key going down) clears the running flag; it is *)
(* processed by the event poll that ends a frame, and once the flag is     *)
(* clear it stays clear, no further frame is executed and no body or grid  *)
(* state changes.                                                          *)
(***************************************************************************)
C19_QuitEndsLoop ==
  /\ [][(\E shiftPressed \in BOOLEAN : keyCallback("Q", "PRESS", shiftPressed))
         => ~running' /\ frames >= 1 /\ frames' = frames]_vars
  /\ [][~running =>
         /\ ~running'
         /\ UNCHANGED <<objs, gridVertices, frames>>]_vars

\* the Q key went down after a frame, with a body under construction
C19_Witness ==
  /\ ~running
  /\ lastOp = "key"
  /\ frames >= 1
  /\ objs[Last].Initalizing

(***************************************************************************)
(* C20: the K key toggles pause: a press of K (K was up) flips the pause   *)
(* flag; a release of K and every event of another key leave the pause     *)
(* flag unchanged.                                                         *)
(***************************************************************************)
C20_KTogglesPause ==
  [][/\ (~kDown /\ \E shiftPressed \in BOOLEAN :
                      keyCallback("K", "PRESS", shiftPressed))
          => pause' = ~pause
     /\ (\/ kDown /\ \E shiftPressed \in BOOLEAN :
                       keyCallback("K", "RELEASE", shiftPressed)
         \/ \E key \in Keys \ {"K"}, action \in {"PRESS", "RELEASE", "REPEAT"},
               shiftPressed \in BOOLEAN :
               keyCallback(key, action, shiftPressed))
          => pause' = pause]_vars

\* the keys of the directional nudges
Arrows == {"UP", "DOWN", "LEFT", "RIGHT"}

(***************************************************************************)
(* C21: a directional nudge event (an arrow key going down or repeating)   *)
(* translates only the position of the body under construction, by a fifth *)
(* of its current radius along the axes of the key; it changes no          *)
(* velocity, mass, radius or state of any body, and when no body is        *)
(* Creating, or the key is released, it changes no body at all.            *)
(***************************************************************************)
C21_NudgeMovesOnlyCreating ==
  [][\A key \in Arrows, action \in {"PRESS", "RELEASE", "REPEAT"},
        shiftPressed \in BOOLEAN :
        keyCallback(key, action, shiftPressed) =>
          LET s == (objs[Last].radius * 2) \div 10
              sy == IF shiftPressed THEN 0 ELSE s
              step == CASE key = "UP" -> Vec(0, sy, s)
                        [] key = "DOWN" -> Vec(0, -sy, -s)
                        [] key = "RIGHT" -> Vec(s, 0, 0)
                        [] key = "LEFT" -> Vec(-s, 0, 0)
          IN /\ Len(objs') = Len(objs)
             /\ \A i \in 1..(Last - 1) : objs'[i] = objs[i]
             /\ objs'[Last] = [objs[Last] EXCEPT
                                 !.position = objs'[Last].position]
             /\ objs'[Last].position
                  = IF objs[Last].Initalizing /\ action # "RELEASE"
                    THEN VAdd(objs[Last].position, step)
                    ELSE objs[Last].position]_vars

\* an arrow key has just moved the body under construction off the origin,
\* behind bodies that were not moved
C21_Witness ==
  /\ lastOp = "key"
  /\ Last > 1
  /\ objs[Last].Initalizing
  /\ objs[Last].position # Zero3

(***************************************************************************)
(* C22: no non-finite value (NaN or infinity) is ever stored in the        *)
(* position or the velocity of a body after a frame, whatever the sequence *)
(* of events and frames, unbounded growth of the mass during creation      *)
(* included.                                                               *)
(***************************************************************************)
C22_BodiesStayFinite ==
  lastOp = "frame" =>
    \A i \in Bodies : \A k \in 1..3 :
       objs[i].position[k] = "fin" /\ objs[i].velocity[k] = "fin"

(***************************************************************************)
(* C23: at any time at most one body is in the Creating state, and it is   *)
(* the last body of the registry, for every order of create and release    *)
(* events (two create events with no release between them included).       *)
(***************************************************************************)
C23_OnlyLastIsCreating ==
  \A i \in Bodies : objs[i].Initalizing => i = Last

(***************************************************************************)
(* C24: every body in the Creating state has zero velocity: a frame, which *)
(* runs UpdatePos for Creating bodies too when it is not paused, never     *)
(* moves such a body, and a body is launched with zero velocity.           *)
(***************************************************************************)
C24_CreatingAtRest ==
  /\ [](\A i \in Bodies : objs[i].Initalizing => objs[i].velocity = Zero3)
  /\ [][/\ FrameStep =>
             \A i \in Bodies : objs[i].Initalizing =>
                /\ objs'[i].position = objs[i].position
                /\ objs'[i].velocity = Zero3
        /\ \A i \in Bodies :
             objs[i].Initalizing /\ ~objs'[i].Initalizing
               => objs'[i].Launched /\ objs'[i].velocity = Zero3]_vars

\* a body was created, moved off the origin by a key, kept its place in an
\* unpaused frame and is now launched
C24_Witness ==
  /\ lastOp = "mouse"
  /\ frames = 2
  /\ ~pause
  /\ objs[Last].Launched
  /\ objs[Last].position # Zero3
  /\ objs[Last].velocity = Zero3
  /\ objs[Last].density = defaultDensity

(***************************************************************************)
(* C25: every body that enters the Creating state is eventually launched,  *)
(* provided release events keep occurring (and the program is not quit):   *)
(* no body remains in the Creating state forever.                          *)
(***************************************************************************)
C25_CreatingEventuallyLaunched ==
  \A i \in 1..MaxObjs :
     (i <= Len(objs) /\ objs[i].Initalizing)
       ~> (~running \/ (i <= Len(objs) /\ objs[i].Launched))

(***************************************************************************)
(* C26: while a body is Creating its mass changes only by the per-frame    *)
(* growth: in a frame in which grow is held the mass of the body under     *)
(* construction is multiplied by exactly 1 + deltaTime, no other step (a   *)
(* press of the grow button included) changes the mass of a Creating body, *)
(* and the radius is recomputed from the new mass in the step that changes *)
(* the mass.                                                               *)
(***************************************************************************)
C26_MassGrowsPerFrameOnly ==
  [][\A i \in Bodies : objs[i].Initalizing =>
        /\ i <= Len(objs')
        /\ objs'[i].mass = IF FrameStep /\ i = Last /\ rightDown
                           THEN GrownMass(objs[i].mass, deltaTime')
                           ELSE objs[i].mass
        /\ objs'[i].mass # objs[i].mass =>
             objs'[i].radius \in
               {Radius(objs'[i].mass, objs'[i].density, sizeRatio),
                Radius(objs'[i].mass, objs'[i].density, initRatio)}]_vars

\* the registry as the pass of body i reads it
SeenRegistry(i) == [j \in Bodies |-> SeenBy(i, j)]

(***************************************************************************)
(* C27: integration is semi-implicit Euler per body: within one unpaused   *)
(* frame the velocity of a body is first updated by all the accelerations  *)
(* and dampings of that frame, and its position is then advanced by the    *)
(* updated velocity over the position divisor:                             *)
(* position_new = position_old + velocity_new / 94.                        *)
(***************************************************************************)
C27_SemiImplicitEuler ==
  [][FrameStep /\ ~pause =>
       \A i \in Bodies :
          /\ objs'[i].velocity
               = InnerLoop(SeenRegistry(i), i, 1,
                           [velocity |-> objs[i].velocity,
                            acc |-> {}, damp |-> {}], FALSE).velocity
          /\ objs'[i].position
               = VAdd(objs[i].position, VQuot(objs'[i].velocity, PosDivisor))]_vars

\* an unpaused frame has just accelerated and damped the bodies
C27_Witness ==
  /\ lastOp = "frame"
  /\ ~pause
  /\ accPairs # {}
  /\ dampPairs # {}
  /\ \E i \in Bodies : objs[i].velocity # Zero3

\* the registry as the pass of body i of the latest frame reads it: the
\* bodies before i as the frame leaves them, the others as the growth step
\* left them
SeenInFrame(i) == [j \in Bodies |-> IF j < i THEN objs'[j] ELSE GridBodies[j]]

(***************************************************************************)
(* C28: while the frame loop processes body i (its inner loop over every   *)
(* other body j) only the velocity, the position and the radius of body i  *)
(* are modified: no field of another body is written, so the frame leaves  *)
(* each body as its own pass leaves it, and each ordered pair (i, j)       *)
(* affects body i alone.                                                   *)
(***************************************************************************)
C28_PassWritesOwnBody ==
  [][FrameStep =>
       \A i \in Bodies :
          /\ objs'[i] = [GridBodies[i] EXCEPT
                           !.velocity = objs'[i].velocity,
                           !.position = objs'[i].position,
                           !.radius = objs'[i].radius]
          /\ objs'[i]
               = Integrate(GridBodies[i],
                           InnerLoop(SeenInFrame(i), i, 1,
                                     [velocity |-> GridBodies[i].velocity,
                                      acc |-> {}, damp |-> {}],
                                     pause).velocity,
                           pause)]_vars

\* an unpaused frame has just run over three bodies or more, with a pair
\* accelerated in both orders and a damping
C28_Witness ==
  /\ lastOp = "frame"
  /\ ~pause
  /\ Len(objs) >= 3
  /\ dampPairs # {}
  /\ \E i, j \in Bodies : i < j /\ <<i, j>> \in accPairs /\ <<j, i>> \in accPairs

(***************************************************************************)
(* C29: body motion does not depend on the measured frame delta: with no   *)
(* grow input, a frame leaves every body with the position and the         *)
(* velocity it would have left for any other value of deltaTime, so two    *)
(* runs from the same registry with the same events and frames agree on    *)
(* every position and velocity in every frame.                             *)
(***************************************************************************)
C29_MotionIgnoresDelta ==
  [][FrameStep /\ ~rightDown =>
       \A dt \in DeltaTimes :
          LET other == Physics(Grow(objs, dt, rightDown), pause).objs
          IN \A i \in Bodies :
                /\ other[i].position = objs'[i].position
                /\ other[i].velocity = objs'[i].velocity]_vars

\* a second, unpaused frame with a positive delta has just accelerated
\* bodies, with the grow button up
C29_Witness ==
  /\ lastOp = "frame"
  /\ frames = 2
  /\ ~pause
  /\ ~rightDown
  /\ deltaTime > 0
  /\ accPairs # {}

\* (G * m_i * m_j / (1000 * d)^2) / m_i for a body of mass m that sees a
\* body of mass partnerMass at the squared distance d2
PullOn(m, partnerMass, d2) ==
  (((GK * m * partnerMass) \div (IF d2 < 1 THEN 1 ELSE d2)) * PosScale) \div m

\* that magnitude for a body of mass m at the place of body i
PullMagnitude(m, i, j) ==
  PullOn(m, SeenBy(i, j).mass, Dist2(objs[i], SeenBy(i, j)) \div PosScale2)

\* that magnitude along the direction from body i to body j, over the
\* velocity divisor
Pull(i, j) ==
  LET d == VSub(SeenBy(i, j).position, objs[i].position)
  IN VQuot([k \in 1..3 |->
              Quot(d[k] * PullMagnitude(objs[i].mass, i, j), DistanceSeen(i, j))],
           VelDivisor)

(***************************************************************************)
(* C30: in an unpaused frame the velocity increment given to non-creating  *)
(* body i by non-creating body j at distance d > 0 points from i towards j *)
(* and has the magnitude (G * m_i * m_j / (1000 * d)^2) / m_i over the     *)
(* velocity divisor 96 (a body with one such partner, not overlapping it,  *)
(* gains exactly that); it is attractive, never repulsive, and independent *)
(* of m_i up to the rounding of the force.                                 *)
(***************************************************************************)
C30_AttractiveIncrement ==
  [][FrameStep /\ ~pause =>
       \A i \in Bodies : ~objs[i].Initalizing =>
          \A j \in Partners(i) : DistanceSeen(i, j) > 0 =>
             /\ <<i, j>> \in accPairs'
             /\ Partners(i) = {j} /\ ~OverlapSeen(i, j)
                  => objs'[i].velocity = VAdd(objs[i].velocity, Pull(i, j))
             /\ \A k \in 1..3 :
                   Pull(i, j)[k]
                     * (SeenBy(i, j).position[k] - objs[i].position[k]) >= 0
             /\ LET partnerMass == SeenBy(i, j).mass
                    d2 == Dist2(objs[i], SeenBy(i, j)) \div PosScale2
                IN \A m \in 1..MaxMass :
                      Abs(PullOn(m, partnerMass, d2)
                            - PullMagnitude(objs[i].mass, i, j)) <= PosScale]_vars

\* an unpaused frame has just pulled two bodies that were apart and at rest
\* towards each other
C30_Witness ==
  /\ lastOp = "frame"
  /\ ~pause
  /\ Len(objs) = 2
  /\ dampPairs = {}
  /\ accPairs = {<<1, 2>>, <<2, 1>>}
  /\ objs[1].position[1] < objs[2].position[1]
  /\ objs[1].velocity[1] > 0
  /\ objs[2].velocity[1] < 0

====
